---- MODULE Spec2Model ----
(***************************************************************************)
(* Model of the gdb command "ptwalk" (src/pagetablewalk.py): an x86-64     *)
(* four-level page-table walk driven by the CR3 register, with 1 GiB and   *)
(* 2 MiB huge pages.                                                       *)
(*                                                                         *)
(* Python integers are unbounded and the values handled here are 64 bits   *)
(* wide, so an integer is modelled as the set of the positions of its 1    *)
(* bits: x & y is intersection, x >> k and x << k move the positions, and  *)
(* x + y is a ripple-carry sum.  A hexadecimal literal of the source is    *)
(* written digit by digit with Hex, so that each mask can be compared      *)
(* with the literal it models.                                             *)
(***************************************************************************)
EXTENDS Integers, Sequences, FiniteSets, TLC

(***************************************************************************)
(* Integers as sets of bit positions                                       *)
(***************************************************************************)

\* Number of bit positions carried by a sum; every value of the walk is
\* below 2^64, so no sum reaches the top position.
WordBits == 66

\* Bit b (0..3) of the hexadecimal digit d (0..15).
DigitBit(d, b) == ((d \div (2 ^ b)) % 2) = 1

\* The integer written by the hexadecimal digits ds, most significant first.
Hex(ds) ==
    { 4 * (Len(ds) - i) + b : <<i, b>> \in
        { p \in (1..Len(ds)) \X (0..3) : DigitBit(ds[p[1]], p[2]) } }

\* x & y
BitAnd(x, y) == x \cap y

\* x >> k
Shr(x, k) == { b - k : b \in { c \in x : c >= k } }

\* x << k
Shl(x, k) == { b + k : b \in x }

\* The carry into position i of x + y: some lower position generates a
\* carry and every position between propagates it.
Carry(x, y, i) ==
    \E j \in 0..(i - 1) :
       /\ j \in x
       /\ j \in y
       /\ \A k \in (j + 1)..(i - 1) : k \in x \/ k \in y

\* The sum of two bit sets: position i holds x_i XOR y_i XOR carry_i.
SumBits(x, y) ==
    { i \in 0..(WordBits - 1) :
        ((i \in x) # (i \in y)) # Carry(x, y, i) }

\* x + y, each operand evaluated once.
Add(x, y) ==
    CHOOSE s \in { SumBits(xv, yv) : xv \in {x}, yv \in {y} } : TRUE

\* x * y: the sum of x << b over the 1 bits b of y.
RECURSIVE Mul(_, _)
Mul(x, y) ==
    IF y = {} THEN {}
    ELSE LET b == CHOOSE c \in y : TRUE
         IN Add(Shl(x, b), Mul(x, y \ {b}))

\* -x for a 64-bit operand, in the two's complement form Python's bit
\* operators see; only bits 63:0 are ever inspected by the walk.
Neg(x) == Add((0..63) \ x, {0}) \cap (0..63)

\* Bits hi..lo of x, left in place.
Bits(x, hi, lo) == { b \in x : lo <= b /\ b <= hi }

\* The bit set of a small number.
RECURSIVE FromNat(_)
FromNat(n) ==
    IF n = 0 THEN {}
    ELSE (IF n % 2 = 1 THEN {0} ELSE {}) \cup Shl(FromNat(n \div 2), 1)

\* Python's None, returned by read_entry on failure; no integer is {-1}.
None == {-1}

(***************************************************************************)
(* int(text, 0): Python's integer literal syntax                           *)
(***************************************************************************)

\* A token is a sequence of one-character strings.
LowerDigits ==
    <<"0", "1", "2", "3", "4", "5", "6", "7", "8", "9",
      "a", "b", "c", "d", "e", "f">>

UpperDigits ==
    <<"0", "1", "2", "3", "4", "5", "6", "7", "8", "9",
      "A", "B", "C", "D", "E", "F">>

\* The digit value of character c, or -1 when c is no digit of a base <= 16.
CharVal(c) ==
    IF \E i \in 1..16 : LowerDigits[i] = c
    THEN (CHOOSE i \in 1..16 : LowerDigits[i] = c) - 1
    ELSE IF \E i \in 1..16 : UpperDigits[i] = c
         THEN (CHOOSE i \in 1..16 : UpperDigits[i] = c) - 1
         ELSE -1

\* text.strip()
RECURSIVE Strip(_)
Strip(t) ==
    IF t = <<>> THEN t
    ELSE IF t[1] = " " THEN Strip(Tail(t))
    ELSE IF t[Len(t)] = " " THEN Strip(SubSeq(t, 1, Len(t) - 1))
    ELSE t

\* The base a literal announces: 0x / 0o / 0b, decimal otherwise.
LiteralBase(t) ==
    IF Len(t) >= 2 /\ t[1] = "0" /\ t[2] \in {"x", "X"} THEN 16
    ELSE IF Len(t) >= 2 /\ t[1] = "0" /\ t[2] \in {"o", "O"} THEN 8
    ELSE IF Len(t) >= 2 /\ t[1] = "0" /\ t[2] \in {"b", "B"} THEN 2
    ELSE 10

\* Digits of the given base, with single underscores between digits only.
ValidDigits(d, base) ==
    /\ Len(d) > 0
    /\ \A i \in 1..Len(d) :
          IF d[i] = "_"
          THEN /\ 1 < i
               /\ i < Len(d)
               /\ d[i - 1] # "_"
               /\ d[i + 1] # "_"
          ELSE CharVal(d[i]) \in 0..(base - 1)

\* The value of decimal digits d: value(front) * 10 + last digit.
RECURSIVE DecimalValue(_)
DecimalValue(d) ==
    IF d = <<>> THEN {}
    ELSE Add(Mul(DecimalValue(SubSeq(d, 1, Len(d) - 1)), FromNat(10)),
             FromNat(CharVal(d[Len(d)])))

\* The value of digits d of base 2, 8 or 16: each digit contributes its
\* bits at its place, width bits per digit.
PlaceValue(d, width) ==
    { width * (Len(d) - i) + b : <<i, b>> \in
        { p \in (1..Len(d)) \X (0..(width - 1)) :
            DigitBit(CharVal(d[p[1]]), p[2]) } }

\* The value of valid digits d, underscores skipped.
DigitsValue(d, base) ==
    LET ds == SelectSeq(d, LAMBDA c : c # "_")
    IN CASE base = 16 -> PlaceValue(ds, 4)
         [] base = 8 -> PlaceValue(ds, 3)
         [] base = 2 -> PlaceValue(ds, 1)
         [] OTHER -> DecimalValue(ds)

\* int(text, 0): the value, or None where Python raises ValueError.
IntBase0(text) ==
    LET s == Strip(text)
        signed == s # <<>> /\ s[1] \in {"+", "-"}
        body == IF signed THEN Tail(s) ELSE s
        base == LiteralBase(body)
        afterPrefix == IF base = 10 THEN body ELSE SubSeq(body, 3, Len(body))
        \* one underscore may follow a base prefix
        digits == IF base # 10 /\ afterPrefix # <<>> /\ afterPrefix[1] = "_"
                  THEN Tail(afterPrefix)
                  ELSE afterPrefix
    IN IF ~ValidDigits(digits, base) THEN None
       ELSE LET v == DigitsValue(digits, base)
            IN \* a decimal literal with a leading zero must be zero
               IF base = 10 /\ digits[1] = "0" /\ v # {} THEN None
               ELSE IF signed /\ s[1] = "-" THEN Neg(v)
               ELSE v

(***************************************************************************)
(* Inputs: command arguments and collaborator responses                    *)
(***************************************************************************)

\* How many of the sample argument vectors, CR3 values and table entries
\* the model draws from.
NumArgv == 7
NumCR3 == 2
NumEntry == 6

Prefix(samples, n) ==
    { samples[i] : i \in 1..(IF n < Len(samples) THEN n ELSE Len(samples)) }

\* Results of gdb.string_to_argv(arg): sequences of tokens.
ArgvSamples ==
    << <<<<"0", "x", "1", "2", "3", "4", "5", "6", "7", "8">>>>,
       <<<<"0", "x", "f", "f", "f", "f", "8", "0", "0", "0", "4", "0", "2", "0", "1", "a", "b", "c">>>>,
       <<<<"n", "o", "t", "_", "a", "_", "n", "u", "m", "b", "e", "r">>>>,
       <<>>,
       <<<<"0", "x", "1", "2", "3", "4", "5", "6", "7", "8">>, <<"0", "x", "f", "f", "f", "f", "8", "0", "0", "0", "4", "0", "2", "0", "1", "a", "b", "c">>>>,
       <<<<"4", "6", "6", "0">>>>,
       <<<<"0", "b", "1", "0", "1">>>>,
       <<<<"0", "x", "7", "f", "f", "f", "f", "f", "f", "f", "e", "a", "b", "c">>>> >>

\* Values of $cr3: a plain frame address; one with bits 51:48 and low
\* flag bits set; one with bit 63 set.
CR3Samples ==
    << Hex(<<1, 0, 0, 0>>),
       Hex(<<10, 0, 0, 0, 0, 0, 0, 0, 3, 15, 0, 1, 15>>),
       Hex(<<8, 0, 0, 0, 0, 0, 0, 0, 0, 0, 0, 0, 5, 0, 0, 0>>) >>

\* Eight-byte table entries: present; zero; present huge; present with
\* bit 63 and bits 51:48; present huge with bits 50 and 48; absent with
\* an address; present huge; present with bit 49.
EntrySamples ==
    << Hex(<<2, 0, 0, 3>>),
       {},
       Hex(<<12, 0, 2, 0, 0, 0, 14, 3>>),
       Hex(<<8, 0, 0, 15, 0, 0, 0, 0, 0, 0, 4, 0, 3, 0, 6, 7>>),
       Hex(<<5, 0, 0, 0, 0, 8, 0, 10, 0, 1, 0, 8, 3>>),
       Hex(<<5, 0, 0, 2>>),
       Hex(<<7, 0, 8, 1>>),
       Hex(<<2, 0, 0, 0, 0, 0, 0, 0, 0, 9, 0, 0, 1>>) >>

ArgvInputs == Prefix(ArgvSamples, NumArgv)
CR3Values == Prefix(CR3Samples, NumCR3)
EntryValues == Prefix(EntrySamples, NumEntry)

\* A collaborator call that raises an exception instead of returning.
Raise == {-2}

(***************************************************************************)
(* State                                                                   *)
(***************************************************************************)

VARIABLES
    pc,      \* position of the command: "idle" between invocations
    mode,    \* the target's Qqemu.PhyMemMode
    locals,  \* locals of ptwalk that outlive a step, None while unassigned
    calls,   \* collaborator calls of the current invocation, in order
    out      \* lines printed by the current invocation, in order

vars == <<pc, mode, locals, calls, out>>

Levels == <<"PML4", "PDPT", "PD", "PT">>

\* args while unassigned: no result of gdb.string_to_argv, whose tokens are
\* sequences of single characters.
NoArgs == <<<<"None">>>>

NoLocals ==
    [args |-> NoArgs, vaddr |-> None, cr3_val |-> None, pml4_entry |-> None,
     pdpt_entry |-> None, pd_entry |-> None]

\* A printed line: which print statement, and the values it shows.
Line(kind, level, addr, val) ==
    [kind |-> kind, level |-> level, addr |-> addr, val |-> val]

\* gdb.execute("maintenance packet Qqemu.PhyMemMode:<0|1>")
ModeCall(enabled) ==
    [op |-> "PhyMemMode", enabled |-> enabled, level |-> "",
     address |-> {}, length |-> {}, ok |-> TRUE]

\* gdb.parse_and_eval("$cr3")
RegCall(ok) ==
    [op |-> "parse_and_eval", enabled |-> TRUE, level |-> "",
     address |-> {}, length |-> {}, ok |-> ok]

\* inferior.read_memory(address, length), issued for the given level
MemCall(level, address, length, ok) ==
    [op |-> "read_memory", enabled |-> TRUE, level |-> level,
     address |-> address, length |-> length, ok |-> ok]

(***************************************************************************)
(* The arithmetic of ptwalk                                                *)
(***************************************************************************)

\* An entry size of 16 bytes.
entry_size_16 == Hex(<<1, 0>>)

entry_size == Hex(<<8>>)

\* The PML4 index without its mask: bits 63:48 reach the index.
pml4_index_unmasked(vaddr) == Shr(vaddr, 39)

pml4_index(vaddr) == BitAnd(Shr(vaddr, 39), Hex(<<1, 15, 15>>))
pdpt_index(vaddr) == BitAnd(Shr(vaddr, 30), Hex(<<1, 15, 15>>))
\* The PD index taken with a shift of 20.
pd_index_shift20(vaddr) == BitAnd(Shr(vaddr, 20), Hex(<<1, 15, 15>>))

pd_index(vaddr) == BitAnd(Shr(vaddr, 21), Hex(<<1, 15, 15>>))
pt_index(vaddr) == BitAnd(Shr(vaddr, 12), Hex(<<1, 15, 15>>))
page_offset(vaddr) == BitAnd(vaddr, Hex(<<15, 15, 15>>))

\* 0xFFFFFFFFF000
pml4_base(cr3_val) ==
    BitAnd(cr3_val, Hex(<<15, 15, 15, 15, 15, 15, 15, 15, 15, 0, 0, 0>>))

pml4_entry_addr(cr3_val, vaddr) ==
    Add(pml4_base(cr3_val), Mul(pml4_index(vaddr), entry_size))

\* The PDPT base taken with a mask that keeps bit 7 (0xFFFFFFFFF080).
pdpt_base_keep7(pml4_entry) ==
    BitAnd(pml4_entry, Hex(<<15, 15, 15, 15, 15, 15, 15, 15, 15, 0, 8, 0>>))

\* 0xFFFFFFFFF000
pdpt_base(pml4_entry) ==
    BitAnd(pml4_entry, Hex(<<15, 15, 15, 15, 15, 15, 15, 15, 15, 0, 0, 0>>))

pdpt_entry_addr(pml4_entry, vaddr) ==
    Add(pdpt_base(pml4_entry), Mul(pdpt_index(vaddr), entry_size))

\* 0xFFFFFFFFF000
pd_base(pdpt_entry) ==
    BitAnd(pdpt_entry, Hex(<<15, 15, 15, 15, 15, 15, 15, 15, 15, 0, 0, 0>>))

pd_entry_addr(pdpt_entry, vaddr) ==
    Add(pd_base(pdpt_entry), Mul(pd_index(vaddr), entry_size))

\* 0xFFFFFFFFF000
pt_base(pd_entry) ==
    BitAnd(pd_entry, Hex(<<15, 15, 15, 15, 15, 15, 15, 15, 15, 0, 0, 0>>))

pt_entry_addr(pd_entry, vaddr) ==
    Add(pt_base(pd_entry), Mul(pt_index(vaddr), entry_size))

\* 0xFFFFFFFFF000
page_base(pt_entry) ==
    BitAnd(pt_entry, Hex(<<15, 15, 15, 15, 15, 15, 15, 15, 15, 0, 0, 0>>))

\* The present check testing bit 1 (entry & 0x2).
Present_bit1(entry) == BitAnd(entry, Hex(<<2>>)) # {}

\* entry & 0x1
Present(entry) == BitAnd(entry, Hex(<<1>>)) # {}

\* The huge page check never taken.
HugePage_never(entry) == FALSE

\* entry & (1 << 7)
HugePage(entry) == BitAnd(entry, Shl(Hex(<<1>>), 7)) # {}

\* The 1 GB base taken with the 4 KB table mask 0xFFFFFFFFF000.
phys_addr_1GB_table_mask(pdpt_entry, vaddr) ==
    Add(BitAnd(pdpt_entry, Hex(<<15, 15, 15, 15, 15, 15, 15, 15, 15, 0, 0, 0>>)),
        BitAnd(vaddr, Hex(<<3, 15, 15, 15, 15, 15, 15, 15>>)))

\* (pdpt_entry & 0xFFFFFC0000000) + (vaddr & 0x3FFFFFFF)
phys_addr_1GB(pdpt_entry, vaddr) ==
    Add(BitAnd(pdpt_entry, Hex(<<15, 15, 15, 15, 15, 12, 0, 0, 0, 0, 0, 0, 0>>)),
        BitAnd(vaddr, Hex(<<3, 15, 15, 15, 15, 15, 15, 15>>)))

\* The 2 MB base taken with the 4 KB table mask 0xFFFFFFFFF000.
phys_addr_2MB_table_mask(pd_entry, vaddr) ==
    Add(BitAnd(pd_entry, Hex(<<15, 15, 15, 15, 15, 15, 15, 15, 15, 0, 0, 0>>)),
        BitAnd(vaddr, Hex(<<1, 15, 15, 15, 15, 15>>)))

\* (pd_entry & 0xFFFFFFE00000) + (vaddr & 0x1FFFFF)
phys_addr_2MB(pd_entry, vaddr) ==
    Add(BitAnd(pd_entry, Hex(<<15, 15, 15, 15, 15, 15, 14, 0, 0, 0, 0, 0>>)),
        BitAnd(vaddr, Hex(<<1, 15, 15, 15, 15, 15>>)))

\* The page base plus the PT index instead of the page offset.
phys_addr_4KB_index(pt_entry, vaddr) ==
    Add(page_base(pt_entry), pt_index(vaddr))

\* page_base + page_offset
phys_addr_4KB(pt_entry, vaddr) ==
    Add(page_base(pt_entry), page_offset(vaddr))

\* read_entry returning 0 instead of None after a failed read.
read_entry_zero(address, response) ==
    IF response = Raise
    THEN [entry |-> {}, lines |-> <<Line("read_failed", "", address, {})>>]
    ELSE [entry |-> response, lines |-> <<>>]

\* read_entry(address) when inferior.read_memory answers with response:
\* the value returned and the lines printed.
read_entry(address, response) ==
    IF response = Raise
    THEN [entry |-> None, lines |-> <<Line("read_failed", "", address, {})>>]
    ELSE [entry |-> response, lines |-> <<>>]

\* "not <entry>" in place of "<entry> is None": a zero entry counts as a
\* failed read.
IsNone_falsy(entry) == entry = None \/ entry = {}

\* "<entry> is None" after read_entry
IsNone(entry) == entry = None

\* len(args) < 1 in place of len(args) != 1.
BadArgCount_lt(args) == Len(args) < 1

\* len(args) != 1
BadArgCount(args) == Len(args) # 1

\* The except clause around the read of $cr3 is never taken.
Raised_never(response) == FALSE

\* The except clause around the read of $cr3 is taken.
Raised(response) == response = Raise

(***************************************************************************)
(* The command                                                             *)
(***************************************************************************)

Init ==
    /\ pc = "idle"
    /\ mode = FALSE
    /\ locals = NoLocals
    /\ calls = <<>>
    /\ out = <<>>

\* A return of ptwalk that never reaches invoke.
Return_hang ==
    /\ pc' = "hang"
    /\ locals' = NoLocals

\* A return of ptwalk after which the address and the entries it worked
\* with survive.
Return_keep ==
    /\ pc' = "revert"
    /\ locals' = [locals EXCEPT !.args = NoArgs]

\* A return statement of ptwalk: its locals are gone and control is back
\* in invoke, before the revert of the physical memory mode.
Return ==
    /\ pc' = "revert"
    /\ locals' = NoLocals

\* invoke, up to the call of ptwalk: enable physical memory mode; ptwalk
\* splits the argument string.
Invoke ==
    /\ pc = "idle"
    /\ \E argv \in ArgvInputs :
          locals' = [NoLocals EXCEPT !.args = argv]
    /\ mode' = TRUE
    /\ calls' = <<ModeCall(TRUE)>>
    /\ out' = <<>>
    /\ pc' = "argv"

\* The argument count check and int(args[0], 0).
ParseArgs ==
    /\ pc = "argv"
    /\ UNCHANGED <<mode, calls>>
    /\ IF BadArgCount(locals.args)
       THEN /\ out' = Append(out, Line("usage", "", {}, {}))
            /\ Return
       ELSE LET v == IntBase0(locals.args[1])
            IN IF v = None
               THEN /\ out' = Append(out, Line("invalid", "", {}, {}))
                    /\ Return
               ELSE /\ locals' = [locals EXCEPT !.vaddr = v]
                    /\ out' = out
                    /\ pc' = "cr3"

\* int(gdb.parse_and_eval("$cr3")), then the printed header and indices.
ReadCR3 ==
    /\ pc = "cr3"
    /\ UNCHANGED mode
    /\ \E r \in CR3Values \cup {Raise} :
          /\ calls' = Append(calls, RegCall(r # Raise))
          /\ IF Raised(r)
             THEN /\ out' = Append(out, Line("cr3_error", "", {}, {}))
                  /\ Return
             ELSE /\ locals' = [locals EXCEPT !.cr3_val = r]
                  /\ out' = out \o
                       <<Line("cr3", "", {}, r),
                         Line("vaddr", "", {}, locals.vaddr),
                         Line("index", "PML4", {}, pml4_index(locals.vaddr)),
                         Line("index", "PDPT", {}, pdpt_index(locals.vaddr)),
                         Line("index", "PD", {}, pd_index(locals.vaddr)),
                         Line("index", "PT", {}, pt_index(locals.vaddr)),
                         Line("offset", "", {}, page_offset(locals.vaddr))>>
                  /\ pc' = "PML4"

\* The PML4 step: entry address, read, present check.
ReadPML4 ==
    /\ pc = "PML4"
    /\ UNCHANGED mode
    /\ \E r \in EntryValues \cup {Raise} :
          LET addr == pml4_entry_addr(locals.cr3_val, locals.vaddr)
              got == read_entry(addr, r)
          IN /\ calls' = Append(calls,
                                MemCall("PML4", addr, entry_size, r # Raise))
             /\ IF IsNone(got.entry)
                THEN /\ out' = out \o got.lines
                     /\ Return
                ELSE IF ~Present(got.entry)
                THEN /\ out' = out \o
                          <<Line("entry", "PML4", addr, got.entry),
                            Line("not_present", "PML4", {}, {})>>
                     /\ Return
                ELSE /\ out' = Append(out, Line("entry", "PML4", addr, got.entry))
                     /\ locals' = [locals EXCEPT !.pml4_entry = got.entry]
                     /\ pc' = "PDPT"

\* The PDPT step: entry address, read, present check, 1 GB page.
ReadPDPT ==
    /\ pc = "PDPT"
    /\ UNCHANGED mode
    /\ \E r \in EntryValues \cup {Raise} :
          LET addr == pdpt_entry_addr(locals.pml4_entry, locals.vaddr)
              got == read_entry(addr, r)
          IN /\ calls' = Append(calls,
                                MemCall("PDPT", addr, entry_size, r # Raise))
             /\ IF IsNone(got.entry)
                THEN /\ out' = out \o got.lines
                     /\ Return
                ELSE IF ~Present(got.entry)
                THEN /\ out' = out \o
                          <<Line("entry", "PDPT", addr, got.entry),
                            Line("not_present", "PDPT", {}, {})>>
                     /\ Return
                ELSE IF HugePage(got.entry)
                THEN /\ out' = out \o
                          <<Line("entry", "PDPT", addr, got.entry),
                            Line("page", "1GB", {}, {}),
                            Line("phys", "", {},
                                 phys_addr_1GB(got.entry, locals.vaddr))>>
                     /\ Return
                ELSE /\ out' = Append(out, Line("entry", "PDPT", addr, got.entry))
                     /\ locals' = [locals EXCEPT !.pdpt_entry = got.entry]
                     /\ pc' = "PD"

\* The PD step: entry address, read, present check, 2 MB page.
ReadPD ==
    /\ pc = "PD"
    /\ UNCHANGED mode
    /\ \E r \in EntryValues \cup {Raise} :
          LET addr == pd_entry_addr(locals.pdpt_entry, locals.vaddr)
              got == read_entry(addr, r)
          IN /\ calls' = Append(calls,
                                MemCall("PD", addr, entry_size, r # Raise))
             /\ IF IsNone(got.entry)
                THEN /\ out' = out \o got.lines
                     /\ Return
                ELSE IF ~Present(got.entry)
                THEN /\ out' = out \o
                          <<Line("entry", "PD", addr, got.entry),
                            Line("not_present", "PD", {}, {})>>
                     /\ Return
                ELSE IF HugePage(got.entry)
                THEN /\ out' = out \o
                          <<Line("entry", "PD", addr, got.entry),
                            Line("page", "2MB", {}, {}),
                            Line("phys", "", {},
                                 phys_addr_2MB(got.entry, locals.vaddr))>>
                     /\ Return
                ELSE /\ out' = Append(out, Line("entry", "PD", addr, got.entry))
                     /\ locals' = [locals EXCEPT !.pd_entry = got.entry]
                     /\ pc' = "PT"

\* The PT step: entry address, read, present check, physical address.
ReadPT ==
    /\ pc = "PT"
    /\ UNCHANGED mode
    /\ \E r \in EntryValues \cup {Raise} :
          LET addr == pt_entry_addr(locals.pd_entry, locals.vaddr)
              got == read_entry(addr, r)
          IN /\ calls' = Append(calls,
                                MemCall("PT", addr, entry_size, r # Raise))
             /\ IF IsNone(got.entry)
                THEN /\ out' = out \o got.lines
                     /\ Return
                ELSE IF ~Present(got.entry)
                THEN /\ out' = out \o
                          <<Line("entry", "PT", addr, got.entry),
                            Line("not_present", "PT", {}, {})>>
                     /\ Return
                ELSE /\ out' = out \o
                          <<Line("entry", "PT", addr, got.entry),
                            Line("phys", "", {},
                                 phys_addr_4KB(got.entry, locals.vaddr))>>
                     /\ Return

\* invoke returning without the revert of the physical memory mode.
Revert_skipped ==
    /\ pc = "revert"
    /\ pc' = "idle"
    /\ UNCHANGED <<mode, locals, calls, out>>

\* invoke, after ptwalk returned: revert physical memory mode.
Revert ==
    /\ pc = "revert"
    /\ mode' = FALSE
    /\ calls' = Append(calls, ModeCall(FALSE))
    /\ pc' = "idle"
    /\ UNCHANGED <<locals, out>>

Next ==
    \/ Invoke
    \/ ParseArgs
    \/ ReadCR3
    \/ ReadPML4
    \/ ReadPDPT
    \/ ReadPD
    \/ ReadPT
    \/ Revert

Spec == Init /\ [][Next]_vars

\* The steps of an invocation under way. The command runs synchronously:
\* once invoked, each step is taken as soon as the collaborator call
\* before it has returned.
Progress ==
    \/ ParseArgs
    \/ ReadCR3
    \/ ReadPML4
    \/ ReadPDPT
    \/ ReadPD
    \/ ReadPT
    \/ Revert

LiveSpec == Init /\ [][Next]_vars /\ WF_vars(Progress)

(***************************************************************************)
(* The index calculation alone, over many virtual addresses                *)
(***************************************************************************)

\* The first and last bit of every field of a virtual address, and of the
\* bits above bit 47.
BoundaryBits == {0, 11, 12, 20, 21, 29, 30, 38, 39, 47, 48, 63}

\* 64-bit virtual addresses: every combination of the boundary bits.
DecodeInputs == SUBSET BoundaryBits

InitDecode ==
    /\ pc = "decode"
    /\ mode = TRUE
    /\ \E v \in DecodeInputs : locals = [NoLocals EXCEPT !.vaddr = v]
    /\ calls = <<>>
    /\ out = <<>>

\* The paging indices and the page offset, as calculated and printed.
Decode ==
    /\ pc = "decode"
    /\ out' = <<Line("index", "PML4", {}, pml4_index(locals.vaddr)),
                Line("index", "PDPT", {}, pdpt_index(locals.vaddr)),
                Line("index", "PD", {}, pd_index(locals.vaddr)),
                Line("index", "PT", {}, pt_index(locals.vaddr)),
                Line("offset", "", {}, page_offset(locals.vaddr))>>
    /\ pc' = "decoded"
    /\ UNCHANGED <<mode, locals, calls>>

SpecDecode == InitDecode /\ [][Decode]_vars

(***************************************************************************)
(* One invocation as a function of its argument and of the responses of    *)
(* the collaborators                                                       *)
(***************************************************************************)

LevelNames == {Levels[i] : i \in 1..Len(Levels)}

\* The PT step once the entry address is known; R[level] is the response
\* to the read issued for the level.
StepPT(vaddr, addr, R) ==
    LET got == read_entry(addr, R["PT"])
    IN [calls |-> <<MemCall("PT", addr, entry_size, R["PT"] # Raise)>>,
        out |->
          IF IsNone(got.entry)
          THEN got.lines
          ELSE IF ~Present(got.entry)
          THEN <<Line("entry", "PT", addr, got.entry),
                 Line("not_present", "PT", {}, {})>>
          ELSE <<Line("entry", "PT", addr, got.entry),
                 Line("phys", "", {}, phys_addr_4KB(got.entry, vaddr))>>]

\* The PT step; the entry address is calculated once.
WalkPT(vaddr, pd_entry, R) ==
    CHOOSE w \in { StepPT(vaddr, addr, R) :
                     addr \in {pt_entry_addr(pd_entry, vaddr)} } : TRUE

\* The PD step once the entry address is known, and what follows it.
StepPD(vaddr, addr, R) ==
    LET got == read_entry(addr, R["PD"])
        call == <<MemCall("PD", addr, entry_size, R["PD"] # Raise)>>
        rest == WalkPT(vaddr, got.entry, R)
    IN IF IsNone(got.entry)
       THEN [calls |-> call, out |-> got.lines]
       ELSE IF ~Present(got.entry)
       THEN [calls |-> call,
             out |-> <<Line("entry", "PD", addr, got.entry),
                       Line("not_present", "PD", {}, {})>>]
       ELSE IF HugePage(got.entry)
       THEN [calls |-> call,
             out |-> <<Line("entry", "PD", addr, got.entry),
                       Line("page", "2MB", {}, {}),
                       Line("phys", "", {}, phys_addr_2MB(got.entry, vaddr))>>]
       ELSE [calls |-> call \o rest.calls,
             out |-> <<Line("entry", "PD", addr, got.entry)>> \o rest.out]

WalkPD(vaddr, pdpt_entry, R) ==
    CHOOSE w \in { StepPD(vaddr, addr, R) :
                     addr \in {pd_entry_addr(pdpt_entry, vaddr)} } : TRUE

\* The PDPT step once the entry address is known, and what follows it.
StepPDPT(vaddr, addr, R) ==
    LET got == read_entry(addr, R["PDPT"])
        call == <<MemCall("PDPT", addr, entry_size, R["PDPT"] # Raise)>>
        rest == WalkPD(vaddr, got.entry, R)
    IN IF IsNone(got.entry)
       THEN [calls |-> call, out |-> got.lines]
       ELSE IF ~Present(got.entry)
       THEN [calls |-> call,
             out |-> <<Line("entry", "PDPT", addr, got.entry),
                       Line("not_present", "PDPT", {}, {})>>]
       ELSE IF HugePage(got.entry)
       THEN [calls |-> call,
             out |-> <<Line("entry", "PDPT", addr, got.entry),
                       Line("page", "1GB", {}, {}),
                       Line("phys", "", {}, phys_addr_1GB(got.entry, vaddr))>>]
       ELSE [calls |-> call \o rest.calls,
             out |-> <<Line("entry", "PDPT", addr, got.entry)>> \o rest.out]

WalkPDPT(vaddr, pml4_entry, R) ==
    CHOOSE w \in { StepPDPT(vaddr, addr, R) :
                     addr \in {pdpt_entry_addr(pml4_entry, vaddr)} } : TRUE

\* The PML4 step once the entry address is known, and what follows it.
StepPML4(vaddr, addr, R) ==
    LET got == read_entry(addr, R["PML4"])
        call == <<MemCall("PML4", addr, entry_size, R["PML4"] # Raise)>>
        rest == WalkPDPT(vaddr, got.entry, R)
    IN IF IsNone(got.entry)
       THEN [calls |-> call, out |-> got.lines]
       ELSE IF ~Present(got.entry)
       THEN [calls |-> call,
             out |-> <<Line("entry", "PML4", addr, got.entry),
                       Line("not_present", "PML4", {}, {})>>]
       ELSE [calls |-> call \o rest.calls,
             out |-> <<Line("entry", "PML4", addr, got.entry)>> \o rest.out]

WalkPML4(vaddr, cr3_val, R) ==
    CHOOSE w \in { StepPML4(vaddr, addr, R) :
                     addr \in {pml4_entry_addr(cr3_val, vaddr)} } : TRUE

\* ptwalk once int(args[0], 0) has been evaluated, when $cr3 answers with
\* cr3.
Translate(vaddr, cr3, R) ==
    LET rest == WalkPML4(vaddr, cr3, R)
    IN IF vaddr = None
       THEN [calls |-> <<>>, out |-> <<Line("invalid", "", {}, {})>>]
       ELSE IF Raised(cr3)
       THEN [calls |-> <<RegCall(FALSE)>>,
             out |-> <<Line("cr3_error", "", {}, {})>>]
       ELSE [calls |-> <<RegCall(TRUE)>> \o rest.calls,
             out |-> <<Line("cr3", "", {}, cr3),
                       Line("vaddr", "", {}, vaddr),
                       Line("index", "PML4", {}, pml4_index(vaddr)),
                       Line("index", "PDPT", {}, pdpt_index(vaddr)),
                       Line("index", "PD", {}, pd_index(vaddr)),
                       Line("index", "PT", {}, pt_index(vaddr)),
                       Line("offset", "", {}, page_offset(vaddr))>>
                     \o rest.out]

\* ptwalk on the argument vector args, when $cr3 answers with cr3 and the
\* memory read of each level with R[level]: the collaborator calls made
\* and the lines printed.
ptwalk(args, cr3, R) ==
    IF BadArgCount(args)
    THEN [calls |-> <<>>, out |-> <<Line("usage", "", {}, {})>>]
    ELSE CHOOSE w \in { Translate(vaddr, cr3, R) :
                          vaddr \in {IntBase0(args[1])} } : TRUE

\* invoke: the mode enabled, ptwalk, the mode reverted.
InvokeResult(args, cr3, R) ==
    LET w == ptwalk(args, cr3, R)
    IN [calls |-> <<ModeCall(TRUE)>> \o w.calls \o <<ModeCall(FALSE)>>,
        out |-> w.out]

\* Argument vectors of single invocations: 0xffff800040201abc and two
\* addresses with the same bits 47:0 (0x1234800040201abc,
\* 0x800040201abc); 0x7fffffffeabc and 0xffff7fffffffeabc; a token that
\* is no integer.
RunArgv ==
    { ArgvSamples[2],
      <<<<"0", "x", "1", "2", "3", "4", "8", "0", "0", "0", "4", "0", "2", "0", "1", "a", "b", "c">>>>,
      <<<<"0", "x", "8", "0", "0", "0", "4", "0", "2", "0", "1", "a", "b", "c">>>>,
      ArgvSamples[8],
      <<<<"0", "x", "f", "f", "f", "f", "7", "f", "f", "f", "f", "f", "f", "f", "e", "a", "b", "c">>>>,
      ArgvSamples[3] }

\* Responses to a memory read: a present entry, a present huge entry with
\* bit 7 set, a present entry with bit 63, an absent entry, a failure.
RunEntries ==
    {EntrySamples[1], EntrySamples[3], EntrySamples[4], EntrySamples[6], Raise}

\* Before one invocation: locals holds its argument vector and the
\* responses the collaborators will give.
InitRun ==
    /\ pc = "run"
    /\ mode = FALSE
    /\ \E args \in RunArgv, cr3 \in {CR3Samples[1], Raise},
          R \in [LevelNames -> RunEntries] :
          locals = [args |-> args, cr3 |-> cr3, entries |-> R]
    /\ calls = <<>>
    /\ out = <<>>

\* The whole invocation.
Run ==
    /\ pc = "run"
    /\ LET w == InvokeResult(locals.args, locals.cr3, locals.entries)
       IN /\ calls' = w.calls
          /\ out' = w.out
    /\ mode' = FALSE
    /\ pc' = "ran"
    /\ UNCHANGED locals

SpecRun == InitRun /\ [][Run]_vars

(***************************************************************************)
(* What an invocation shows: its collaborator calls and printed lines      *)
(***************************************************************************)

\* An invocation has run to its end.
Returned == pc = "idle" /\ calls # <<>>

\* ptwalk has returned (invoke may still have to revert the mode).
Terminated == pc = "revert" \/ Returned

\* The per-level records: the "<level> Entry @ <address> = <value>" lines.
Trace == SelectSeq(out, LAMBDA l : l.kind = "entry")

TraceLevels == [i \in 1..Len(Trace) |-> Trace[i].level]

\* The memory reads issued, in order.
MemReads == SelectSeq(calls, LAMBDA c : c.op = "read_memory")

MemReadLevels == [i \in 1..Len(MemReads) |-> MemReads[i].level]

RegReads == SelectSeq(calls, LAMBDA c : c.op = "parse_and_eval")

HasLine(kind) == \E i \in 1..Len(out) : out[i].kind = kind

\* The value shown by the first line of the given kind.
ShownVal(kind) == out[CHOOSE i \in 1..Len(out) : out[i].kind = kind].val

HasEntry(level) == \E i \in 1..Len(Trace) : Trace[i].level = level

\* The raw entry shown for the level.
ShownEntry(level) ==
    Trace[CHOOSE i \in 1..Len(Trace) : Trace[i].level = level].val

\* The entry shown for the level has the bit set.
EntryBit(level, bit) == HasEntry(level) /\ bit \in ShownEntry(level)

\* The walk ended with a physical address as its last line.
Success == out # <<>> /\ out[Len(out)].kind = "phys"

PhysicalAddress == out[Len(out)].val

(***************************************************************************)
(* Claims                                                                  *)
(***************************************************************************)

\* C1: in every invocation, whatever its outcome, the physical memory mode
\* is enabled exactly once, as the first collaborator call, and disabled
\* exactly once, as the last call before the invocation returns; every
\* register and memory read lies between the two.
C1_ScopedMode ==
    /\ calls # <<>> => calls[1] = ModeCall(TRUE)
    /\ \A i \in 2..Len(calls) : calls[i] # ModeCall(TRUE)
    /\ \A i \in 1..Len(calls) :
          calls[i] = ModeCall(FALSE) => (i = Len(calls) /\ pc = "idle")
    /\ Returned => calls[Len(calls)] = ModeCall(FALSE)
    /\ \A i \in 1..Len(calls) :
          calls[i].op \in {"parse_and_eval", "read_memory"} =>
              (1 < i /\ (Returned => i < Len(calls)))
    /\ mode = (pc # "idle")

\* C1 witness: an invocation that returned after a failed memory read at
\* the PD level.
C1_Witness ==
    /\ Returned
    /\ \E i \in 1..Len(calls) :
          calls[i].op = "read_memory" /\ calls[i].level = "PD" /\ ~calls[i].ok

\* The entries shown at all four levels are present and neither the PDPT
\* nor the PD entry is a huge page.
FullWalk ==
    /\ \A i \in 1..4 : EntryBit(Levels[i], 0)
    /\ ~EntryBit("PDPT", 7)
    /\ ~EntryBit("PD", 7)

\* C2: with present entries at all four levels and no huge page, the walk
\* succeeds with physical address = page base of the PT entry + low 12 bits
\* of the virtual address, and exactly the four records PML4, PDPT, PD, PT.
C2_FullWalk4K ==
    FullWalk =>
        /\ Terminated
        /\ Success
        /\ PhysicalAddress =
              Add(page_base(ShownEntry("PT")), Bits(ShownVal("vaddr"), 11, 0))
        /\ TraceLevels = Levels
        /\ ~HasLine("page")
        /\ ~HasLine("not_present")
        /\ ~HasLine("read_failed")

\* C2 witness: a returned full walk of a virtual address with a non-zero
\* page offset and a non-zero PT index.
C2_Witness ==
    /\ Returned
    /\ FullWalk
    /\ Bits(ShownVal("vaddr"), 11, 0) # {}
    /\ Bits(ShownVal("vaddr"), 20, 12) # {}

\* The PML4 entry is present and the PDPT entry is a present huge page.
Huge1G == EntryBit("PML4", 0) /\ EntryBit("PDPT", 0) /\ EntryBit("PDPT", 7)

\* C3: a present PDPT entry with bit 7 set ends the walk in success with
\* physical address = bits 51:30 of the PDPT entry + low 30 bits of the
\* virtual address, a 1 GB page, and no memory read for PD or PT.
C3_HugePage1G ==
    Huge1G =>
        /\ Terminated
        /\ Success
        /\ PhysicalAddress =
              Add(Bits(ShownEntry("PDPT"), 51, 30),
                  Bits(ShownVal("vaddr"), 29, 0))
        /\ \E i \in 1..Len(out) : out[i].kind = "page" /\ out[i].level = "1GB"
        /\ MemReadLevels = <<"PML4", "PDPT">>
        /\ TraceLevels = <<"PML4", "PDPT">>

\* C3 witness: a returned 1 GB walk whose PDPT entry has bits 51:48 and
\* bits below 30 set, for a virtual address with offset bits above 12.
C3_Witness ==
    /\ Returned
    /\ Huge1G
    /\ Bits(ShownEntry("PDPT"), 51, 48) # {}
    /\ Bits(ShownEntry("PDPT"), 29, 12) # {}
    /\ Bits(ShownVal("vaddr"), 29, 12) # {}

\* The PML4 and PDPT entries are present, the PDPT entry is no huge page
\* and the PD entry is a present huge page.
Huge2M ==
    /\ EntryBit("PML4", 0)
    /\ EntryBit("PDPT", 0)
    /\ ~EntryBit("PDPT", 7)
    /\ EntryBit("PD", 0)
    /\ EntryBit("PD", 7)

\* C4: a present PD entry with bit 7 set ends the walk in success with
\* physical address = bits 51:21 of the PD entry + low 21 bits of the
\* virtual address, a 2 MB page, for every PD entry value including those
\* with bits 51:48 set, and no memory read for PT.
C4_HugePage2M ==
    Huge2M =>
        /\ Terminated
        /\ Success
        /\ PhysicalAddress =
              Add(Bits(ShownEntry("PD"), 51, 21),
                  Bits(ShownVal("vaddr"), 20, 0))
        /\ \E i \in 1..Len(out) : out[i].kind = "page" /\ out[i].level = "2MB"
        /\ MemReadLevels = <<"PML4", "PDPT", "PD">>

\* The value a level's table base is taken from: $cr3 for PML4, the entry
\* of the level above otherwise.
BaseSource(level) ==
    CASE level = "PML4" -> ShownVal("cr3")
      [] level = "PDPT" -> ShownEntry("PML4")
      [] level = "PD" -> ShownEntry("PDPT")
      [] level = "PT" -> ShownEntry("PD")

\* The 9-bit index of the level in the virtual address, taken by place.
IndexBits(level) ==
    CASE level = "PML4" -> Shr(Bits(ShownVal("vaddr"), 47, 39), 39)
      [] level = "PDPT" -> Shr(Bits(ShownVal("vaddr"), 38, 30), 30)
      [] level = "PD" -> Shr(Bits(ShownVal("vaddr"), 29, 21), 21)
      [] level = "PT" -> Shr(Bits(ShownVal("vaddr"), 20, 12), 12)

\* C5: every table base used for an entry address, and the page base of a
\* 4 KB page, is bits 51:12 of the value it is taken from, bits 51:48
\* included: each memory read is at bits 51:12 of its source + 8 * index,
\* and a 4 KB physical address is bits 51:12 of the PT entry + offset.
C5_BaseBits51_12 ==
    /\ \A i \in 1..Len(MemReads) :
          MemReads[i].address =
              Add(Bits(BaseSource(MemReads[i].level), 51, 12),
                  Shl(IndexBits(MemReads[i].level), 3))
    /\ FullWalk =>
          PhysicalAddress =
              Add(Bits(ShownEntry("PT"), 51, 12), Bits(ShownVal("vaddr"), 11, 0))

\* The entry shown at level number n (1 = PML4 .. 4 = PT) has bit 0 clear
\* and those shown above it are present.
AbsentAt(n) ==
    /\ HasEntry(Levels[n])
    /\ ~EntryBit(Levels[n], 0)
    /\ \A k \in 1..(n - 1) : EntryBit(Levels[k], 0)

\* C6: an entry with bit 0 clear at level L aborts the walk with "L entry
\* not present", no physical address, exactly the records PML4..L, and no
\* read below L; no entry address is computed from an absent entry: every
\* read below PML4 follows a present entry at the level above.
C6_AbsentAborts ==
    /\ \A n \in 1..4 :
          AbsentAt(n) =>
              /\ Terminated
              /\ out[Len(out)] = Line("not_present", Levels[n], {}, {})
              /\ ~HasLine("phys")
              /\ TraceLevels = SubSeq(Levels, 1, n)
              /\ MemReadLevels = SubSeq(Levels, 1, n)
    /\ \A i \in 2..Len(MemReads) :
          \E k \in 2..4 :
             /\ MemReads[i].level = Levels[k]
             /\ EntryBit(Levels[k - 1], 0)

\* C6 witness: a returned walk aborted at PD by an entry with bit 0 clear
\* and address bits set.
C6_Witness ==
    /\ Returned
    /\ AbsentAt(3)
    /\ ShownEntry("PD") # {}

\* C7: a failed memory read aborts the walk at once: the failure message
\* for that address is the last line, the failed read is the last memory
\* read (no retry, no read for a later level), and no physical address is
\* produced.
C7_ReadFailureAborts ==
    \A i \in 1..Len(MemReads) :
       ~MemReads[i].ok =>
           /\ Terminated
           /\ i = Len(MemReads)
           /\ out[Len(out)] = Line("read_failed", "", MemReads[i].address, {})
           /\ ~HasLine("phys")

\* C7 witness: a returned walk whose PDPT read failed.
C7_Witness ==
    /\ Returned
    /\ Len(MemReads) = 2
    /\ ~MemReads[2].ok

\* C8 as claimed: when the walk has ended, the trace holds one record for
\* each level whose read was attempted, the level of a failed read
\* included.
C8_RecordPerAttempt ==
    Terminated => TraceLevels = MemReadLevels

\* The reads that returned a value.
OkReads == SelectSeq(MemReads, LAMBDA c : c.ok)

\* C8 amended: the trace holds exactly one record for each level whose
\* read returned a value, absent entries included, and none for the level
\* of a failed read, which leaves only the failure message.
C8_RecordPerCompletedRead ==
    /\ TraceLevels = [i \in 1..Len(OkReads) |-> OkReads[i].level]
    /\ \A i \in 1..Len(Trace) : Trace[i].addr = OkReads[i].address
    /\ \A i \in 1..Len(MemReads) :
          ~MemReads[i].ok => ~HasEntry(MemReads[i].level)

\* C8 witness: a returned walk with records for PML4 and PDPT and a failed
\* read at PD.
C8_Witness ==
    /\ Returned
    /\ MemReadLevels = <<"PML4", "PDPT", "PD">>
    /\ ~MemReads[3].ok
    /\ TraceLevels = <<"PML4", "PDPT">>

\* The argument is not exactly one token, or its token is no integer
\* literal.
BadArgument ==
    \/ Len(locals.args) # 1
    \/ IntBase0(locals.args[1]) = None

\* C9: an argument that is not exactly one token ends in the usage
\* message, a single token that is no integer in the invalid-address
\* message; either way ptwalk returns at once and the invocation makes no
\* register read and no memory read.
C9_BadArgumentNoReads ==
    /\ [][(pc = "argv" /\ BadArgument) =>
            /\ pc' = "revert"
            /\ calls' = calls
            /\ out' = <<Line(IF Len(locals.args) # 1 THEN "usage" ELSE "invalid",
                             "", {}, {})>>]_vars
    /\ [](HasLine("usage") \/ HasLine("invalid") =>
            /\ Len(out) = 1
            /\ RegReads = <<>>
            /\ MemReads = <<>>)

\* C9 witness: a returned invocation that printed the invalid-address
\* message.
C9_Witness == Returned /\ HasLine("invalid")

\* C10: a failed read of $cr3 ends the call with the register error, no
\* memory read, no trace record and no physical address.
C10_RegisterFailure ==
    (\E i \in 1..Len(RegReads) : ~RegReads[i].ok) =>
        /\ Terminated
        /\ out = <<Line("cr3_error", "", {}, {})>>
        /\ MemReads = <<>>
        /\ Trace = <<>>
        /\ ~HasLine("phys")
        /\ Len(RegReads) = 1

\* C10 witness: a returned invocation whose read of $cr3 failed.
C10_Witness == Returned /\ RegReads = <<RegCall(FALSE)>>

\* The token is "0x" or "0X" followed by hexadecimal digits only.
IsHexText(t) ==
    /\ Len(t) >= 3
    /\ t[1] = "0"
    /\ t[2] \in {"x", "X"}
    /\ \A i \in 3..Len(t) : CharVal(t[i]) \in 0..15

\* The token is decimal digits only.
IsDecimalText(t) ==
    /\ Len(t) >= 1
    /\ \A i \in 1..Len(t) : CharVal(t[i]) \in 0..9

\* ptwalk has taken its argument as an address and gone on to translate.
Accepted == pc \in {"cr3", "PML4", "PDPT", "PD", "PT"}

\* C13: the single token is taken as an address only when it is
\* 0x-prefixed hexadecimal or decimal text; any other form, such as 0b- or
\* 0o-prefixed text, is refused and no translation is attempted.
C13_OnlyHexOrDecimal ==
    Accepted =>
        IsHexText(locals.args[1]) \/ IsDecimalText(locals.args[1])

\* The collaborator calls other than the two mode switches.
Reads == SelectSeq(calls, LAMBDA c : c.op # "PhyMemMode")

\* C15: the reads of a call come in the fixed order $cr3, PML4, PDPT, PD,
\* PT, each at most once; a level is read only after the register read
\* and every earlier level's read succeeded and showed a present entry
\* that is no huge page at PDPT or PD.
C15_LinearOrder ==
    /\ Len(RegReads) <= 1
    /\ Len(MemReads) <= 4
    /\ MemReadLevels = SubSeq(Levels, 1, Len(MemReads))
    /\ Reads = RegReads \o MemReads
    /\ MemReads # <<>> => (Len(RegReads) = 1 /\ RegReads[1].ok)
    /\ \A k \in 2..Len(MemReads) :
          /\ MemReads[k - 1].ok
          /\ EntryBit(Levels[k - 1], 0)
          /\ Levels[k - 1] \in {"PDPT", "PD"} => ~EntryBit(Levels[k - 1], 7)

\* C15 witness: a returned call that read $cr3 and all four levels.
C15_Witness == Returned /\ Len(RegReads) = 1 /\ Len(MemReads) = 4

\* C16: every failure of the walk names the level and the address: a
\* failed read at level L is reported with L and the entry address, an
\* absent entry at L with L and the address it was read from.
C16_FailureNamesLevelAndAddress ==
    /\ \A i \in 1..Len(MemReads) :
          ~MemReads[i].ok =>
              /\ out[Len(out)].level = MemReads[i].level
              /\ out[Len(out)].addr = MemReads[i].address
    /\ \A n \in 1..4 :
          AbsentAt(n) =>
              /\ out[Len(out)].kind = "not_present"
              /\ out[Len(out)].level = Levels[n]
              /\ out[Len(out) - 1].kind = "entry"
              /\ out[Len(out) - 1].level = Levels[n]
              /\ out[Len(out) - 1].addr = MemReads[n].address

\* The table base the code takes for a level from its source value.
TableBase(level) ==
    CASE level = "PML4" -> pml4_base(BaseSource(level))
      [] level = "PDPT" -> pdpt_base(BaseSource(level))
      [] level = "PD" -> pd_base(BaseSource(level))
      [] level = "PT" -> pt_base(BaseSource(level))

\* C19: every memory read is for 8 bytes, at an 8-byte aligned address
\* inside the 4 KB frame of the table base it was derived from: the
\* address is the base in bits 12 and up and 8 * index <= 4088 below.
C19_ReadsInsideTable ==
    \A i \in 1..Len(MemReads) :
       /\ MemReads[i].length = {3}
       /\ Bits(MemReads[i].address, 2, 0) = {}
       /\ Bits(TableBase(MemReads[i].level), 11, 0) = {}
       /\ Bits(MemReads[i].address, WordBits, 12) = TableBase(MemReads[i].level)
       /\ Bits(MemReads[i].address, 11, 0) = Shl(IndexBits(MemReads[i].level), 3)

\* C19 witness: a returned walk with four reads, from a virtual address
\* whose PML4 index is 0x100 and a $cr3 with low bits set.
C19_Witness ==
    /\ Returned
    /\ Len(MemReads) = 4
    /\ 8 \in IndexBits("PML4")
    /\ Bits(ShownVal("cr3"), 11, 0) # {}

\* The number of low address bits inside the page the walk ended in.
PageBits ==
    IF \E i \in 1..Len(out) : out[i].kind = "page" /\ out[i].level = "1GB"
    THEN 30
    ELSE IF \E i \in 1..Len(out) : out[i].kind = "page" /\ out[i].level = "2MB"
    THEN 21
    ELSE 12

\* C20: in a successful walk the offset inside the page is carried over
\* unchanged: the low 12 (4 KB), 21 (2 MB) or 30 (1 GB) bits of the
\* physical address are those of the virtual address.
C20_OffsetCarried ==
    Success =>
        Bits(PhysicalAddress, PageBits - 1, 0) =
            Bits(ShownVal("vaddr"), PageBits - 1, 0)

\* C20 witness: a returned 2 MB walk whose PD entry has bits below 21 set
\* and whose virtual address has offset bits above 12.
C20_Witness ==
    /\ Returned
    /\ Success
    /\ PageBits = 21
    /\ Bits(ShownEntry("PD"), 20, 12) # {}
    /\ Bits(ShownVal("vaddr"), 20, 12) # {}

\* The lines that state how the call ended.
OutcomeKinds ==
    {"usage", "invalid", "cr3_error", "read_failed", "not_present", "phys"}

OutcomeLines == { i \in 1..Len(out) : out[i].kind \in OutcomeKinds }

PageLines == { i \in 1..Len(out) : out[i].kind = "page" }

\* C18: with every collaborator call returning, an invocation under way
\* eventually returns, with exactly one terminal outcome as its last line
\* and the physical memory mode disabled; a physical address comes only
\* with success (with at most one page size) and never with a failure.
C18_Terminates ==
    /\ [](/\ Terminated =>
               (Cardinality(OutcomeLines) = 1 /\ Len(out) \in OutcomeLines)
          /\ (pc # "idle" /\ ~Terminated) => OutcomeLines = {}
          /\ Returned => mode = FALSE
          /\ HasLine("phys") => Success
          /\ Cardinality(PageLines) <= 1
          /\ PageLines # {} => Success)
    /\ (pc # "idle") ~> Returned

\* C18 witness: an invocation that returned with a 1 GB physical address.
C18_Witness == Returned /\ Success /\ PageBits = 30

\* The index printed for the level.
ShownIndex(level) ==
    out[CHOOSE i \in 1..Len(out) :
           out[i].kind = "index" /\ out[i].level = level].val

\* C11: for every 64-bit virtual address the four indices are in 0..511,
\* the offset is in 0..4095, and pml4<<39 | pdpt<<30 | pd<<21 | pt<<12 |
\* offset is the low 48 bits of the address.
C11_DecodeReassembles ==
    pc = "decoded" =>
        /\ \A i \in 1..4 : ShownIndex(Levels[i]) \subseteq 0..8
        /\ ShownVal("offset") \subseteq 0..11
        /\ Shl(ShownIndex("PML4"), 39) \cup Shl(ShownIndex("PDPT"), 30)
             \cup Shl(ShownIndex("PD"), 21) \cup Shl(ShownIndex("PT"), 12)
             \cup ShownVal("offset")
           = Bits(locals.vaddr, 47, 0)

\* C11 witness: a decoded address with bits 63, 48, 47, 29, 21, 12 and 0
\* set.
C11_Witness ==
    /\ pc = "decoded"
    /\ {63, 48, 47, 29, 21, 12, 0} \subseteq locals.vaddr

\* The value $cr3 answered with, as the calls cs and the lines o show it.
ObservedCR3(cs, o) ==
    IF \E i \in 1..Len(o) : o[i].kind = "cr3"
    THEN o[CHOOSE i \in 1..Len(o) : o[i].kind = "cr3"].val
    ELSE Raise

\* The response to the memory read of the level, as the lines o show it:
\* the entry printed, or a failure.
ObservedEntry(o, level) ==
    IF \E i \in 1..Len(o) : o[i].kind = "entry" /\ o[i].level = level
    THEN o[CHOOSE i \in 1..Len(o) :
              o[i].kind = "entry" /\ o[i].level = level].val
    ELSE Raise

\* C12: between invocations the state is the initial one (mode disabled,
\* no local of ptwalk retained), every invocation starts its own calls and
\* lines afresh, and what ptwalk has done when it returns is what its
\* argument and the responses it received determine, whatever invocations
\* came before.
C12_IndependentInvocations ==
    /\ [](pc = "idle" => (mode = FALSE /\ locals = NoLocals))
    /\ [][(pc = "idle" /\ pc' # "idle") =>
             (calls' = <<ModeCall(TRUE)>> /\ out' = <<>>)]_vars
    /\ [][pc' = "revert" =>
             LET w == ptwalk(locals.args, ObservedCR3(calls', out'),
                             [l \in LevelNames |-> ObservedEntry(out', l)])
             IN /\ calls' = <<ModeCall(TRUE)>> \o w.calls
                /\ out' = w.out]_vars

\* C12 witness: between invocations, after one that failed to read the
\* PDPT entry.
C12_Witness ==
    /\ pc = "idle"
    /\ locals = NoLocals
    /\ HasLine("read_failed")
    /\ Len(MemReads) = 2

\* The memory reads among the calls cs.
ReadsIn(cs) == SelectSeq(cs, LAMBDA c : c.op = "read_memory")

\* The response with bit 7 inverted; a failure stays a failure.
Flip7(r) ==
    IF r = Raise THEN r ELSE IF 7 \in r THEN r \ {7} ELSE r \cup {7}

\* The responses that differ from R at most in bit 7 of the PML4 entry and
\* in bit 7 of the PT entry.
Bit7Twins(R) ==
    { [R EXCEPT !["PML4"] = a, !["PT"] = b] :
        a \in {R["PML4"], Flip7(R["PML4"])},
        b \in {R["PT"], Flip7(R["PT"])} }

\* C14: responses that differ only in bit 7 of the PML4 entry or of the PT
\* entry give the same memory reads and the same last line (outcome and
\* physical address); a page size line follows only a PDPT or PD entry, and
\* a walk that succeeds before the PT level ends at the PDPT or PD level.
C14_Bit7Ignored ==
    pc = "ran" =>
        /\ \A R2 \in Bit7Twins(locals.entries) :
              LET w == InvokeResult(locals.args, locals.cr3, R2)
              IN /\ ReadsIn(w.calls) = MemReads
                 /\ w.out[Len(w.out)] = out[Len(out)]
        /\ \A i \in 1..Len(out) :
              out[i].kind = "page" =>
                  /\ i > 1
                  /\ out[i - 1].kind = "entry"
                  /\ out[i - 1].level \in {"PDPT", "PD"}
        /\ (Success /\ Len(MemReads) < 4) =>
              MemReads[Len(MemReads)].level \in {"PDPT", "PD"}

\* C14 witness: a walk through all four levels to a physical address whose
\* PML4 and PT entries both have bit 7 set.
C14_Witness ==
    /\ pc = "ran"
    /\ Success
    /\ Len(MemReads) = 4
    /\ 7 \in locals.entries["PML4"]
    /\ 7 \in locals.entries["PT"]

\* The argument vector holds one token that int(token, 0) accepts.
ValidArgv(args) == ~BadArgCount(args) /\ IntBase0(args[1]) # None

\* The virtual address each argument vector of RunArgv stands for.
RunVaddr ==
    [a \in RunArgv |-> IF ValidArgv(a) THEN IntBase0(a[1]) ELSE None]

\* C17: an address is not rejected for its bits 63:48, and argument
\* addresses that agree in bits 47:0 give, under the same responses, the
\* same memory reads and the same last line (outcome and physical address).
C17_NoCanonicalCheck ==
    (pc = "ran" /\ RunVaddr[locals.args] # None) =>
        /\ ~HasLine("invalid")
        /\ \A a2 \in RunArgv :
              (/\ RunVaddr[a2] # None
               /\ Bits(RunVaddr[a2], 47, 0)
                    = Bits(RunVaddr[locals.args], 47, 0)) =>
                  LET w == InvokeResult(a2, locals.cr3, locals.entries)
                  IN /\ ReadsIn(w.calls) = MemReads
                     /\ w.out[Len(w.out)] = out[Len(out)]

\* C17 witness: 0x1234800040201abc, whose bits 63:48 are no sign extension
\* of bit 47, translated through all four levels.
C17_Witness ==
    /\ pc = "ran"
    /\ Success
    /\ Len(MemReads) = 4
    /\ Bits(RunVaddr[locals.args], 63, 48) = Shl(Hex(<<1, 2, 3, 4>>), 48)

====
